---------------------------- MODULE Spec2Model ----------------------------
(***************************************************************************)
(* Label generation for one batch of ICU patients                          *)
(* (icu_benchmarks/labels/label_benchmark.py).                             *)
(*                                                                         *)
(* label_gen_benchmark walks the patient ids of a batch; for each it reads *)
(* the static attributes, slices the imputed and the endpoint table,       *)
(* sorts the endpoint slice, calls gen_label and appends the label table.  *)
(* After the loop the appended tables are concatenated and written.        *)
(*                                                                         *)
(* Tables are sequences of rows (records), label channels are sequences    *)
(* of entries.  An entry is NaN (the empty tuple) or Known(v).  Real       *)
(* numbers are exact fractions [num, den]; floating-point rounding is not  *)
(* modelled.  An uncaught Python exception ends the run: pc = "aborted"    *)
(* and exc names the exception and the line that raised it.                *)
(***************************************************************************)
EXTENDS Integers, Sequences, FiniteSets, TLC

VARIABLES
    df_static,          \* static table: rows [pid, discharge_status, apache_ii, apache_iv]
    df_all_pats,        \* imputed table of the batch
    df_all_endpoints,   \* endpoint table of the batch
    all_pids,           \* line 130
    debug_mode,         \* configs["debug_mode"]
    info_enabled,       \* whether the root logger emits INFO records
    pidx,               \* number of loop iterations completed (index into all_pids)
    n_skipped_patients, \* line 140
    all_out_dfs,        \* line 123
    df_pat,             \* loop locals, lines 163-185
    df_endpoint,
    mort_status,
    apache_pat_group,
    df_label,
    parquet,            \* the label file of the batch, [exists, df]
    pc,                 \* "loop" | "call" | "done" | "aborted"
    exc                 \* the uncaught exception, "" when none

vars == <<df_static, df_all_pats, df_all_endpoints, all_pids, debug_mode,
          info_enabled,
          pidx, n_skipped_patients, all_out_dfs, df_pat, df_endpoint,
          mort_status, apache_pat_group, df_label, parquet, pc, exc>>

---------------------------------------------------------------------------
(* Program constants *)

STEPS_PER_HOUR == 12
MORT_AT_HOURS == 24
PHENO_AT_HOURS == 24
FAILURE_LHOURS == 0
FAILURE_RHOURS == 12
URINE_RHOURS == 2
HR_LOOKBACK == 2
OLIGURIA_NUM == 1
OLIGURIA_DEN == 2

APACHE_II_map == (1 :> 1) @@ (2 :> 2)
APACHE_IV_map == (1 :> 3) @@ (3 :> 2)

---------------------------------------------------------------------------
(* Values *)

NaN == <<>>
Known(v) == <<v>>
IsNaN(x) == x = NaN
Val(x) == x[1]

Frac(n, d) == [num |-> n, den |-> d]

Col(df, name) == [i \in 1..Len(df) |-> df[i][name]]

RECURSIVE SumRange(_, _, _)
SumRange(arr, lo, hi) ==
    IF lo > hi THEN 0 ELSE arr[lo] + SumRange(arr, lo + 1, hi)

Min(a, b) == IF a < b THEN a ELSE b

---------------------------------------------------------------------------
(* icu_benchmarks.labels.utils *)

\* Measurement-Validity Classifier: a fresh observation within the lookback.
get_hr_status(hr_col) ==
    [t \in 1..Len(hr_col) |->
        hr_col[t] > (IF t > HR_LOOKBACK THEN hr_col[t - HR_LOOKBACK] ELSE 0)]

\* Label Masking Operator.
convolve_hr(in_arr, hr_status_arr) ==
    [t \in 1..Len(in_arr) |-> IF hr_status_arr[t] THEN in_arr[t] ELSE NaN]

\* Horizon-Gated Static Labeler; status is an entry (NaN or Known).
unique_label_at_hours(stay_length, status, at_hours) ==
    [t \in 1..stay_length |->
        IF t - 1 < at_hours * STEPS_PER_HOUR THEN NaN ELSE status]

\* Transition Window Detector over a 0/1 status column.
transition_to_failure(ann_col, lhours, rhours) ==
    [t \in 1..Len(ann_col) |->
        Known(IF \E k \in (t + lhours * STEPS_PER_HOUR)
                          ..Min(t + rhours * STEPS_PER_HOUR - 1, Len(ann_col)) :
                    ann_col[k] = 1
              THEN 1 ELSE 0)]

\* Any respiratory failure level counts as failure.
get_any_resp_label(pre_resp_arr) ==
    [t \in 1..Len(pre_resp_arr) |-> IF pre_resp_arr[t] >= 1 THEN 1 ELSE 0]

UrineMeasuredIn(meas_arr, lo, hi) ==
    \E k \in lo..hi : meas_arr[k] > (IF k = 1 THEN 0 ELSE meas_arr[k - 1])

urine_reg_at(urine_col, meas_arr, weight_col, rhours, t) ==
    LET hi == Min(t + rhours * STEPS_PER_HOUR - 1, Len(urine_col))
    IN  IF ~UrineMeasuredIn(meas_arr, t, hi) \/ weight_col[t] <= 0
        THEN NaN
        ELSE Known(Frac(SumRange(urine_col, t, hi), weight_col[t] * rhours))

\* Future-Aggregate Regressor: <<regression target, binary target>>.
future_urine_output(urine_col, meas_arr, weight_col, rhours) ==
    LET reg == [t \in 1..Len(urine_col) |->
                   urine_reg_at(urine_col, meas_arr, weight_col, rhours, t)]
        bin == [t \in 1..Len(urine_col) |->
                   IF IsNaN(reg[t]) THEN NaN
                   ELSE Known(IF Val(reg[t]).num * OLIGURIA_DEN
                                   < OLIGURIA_NUM * Val(reg[t]).den
                              THEN 1 ELSE 0)]
    IN  <<reg, bin>>

\* Severity-Group Merger; a score is [kind, v], the result an entry.
merge_apache_groups(apache_ii_group, apache_iv_group, ii_map, iv_map) ==
    IF apache_ii_group.kind = "num" /\ apache_ii_group.v \in DOMAIN ii_map
    THEN Known(ii_map[apache_ii_group.v])
    ELSE IF apache_iv_group.kind = "num" /\ apache_iv_group.v \in DOMAIN iv_map
         THEN Known(iv_map[apache_iv_group.v])
         ELSE NaN

---------------------------------------------------------------------------
(* gen_label *)

None == [kind |-> "None", exc |-> "", df |-> <<>>]
Raise(e) == [kind |-> "raise", exc |-> e, df |-> <<>>]
Df(t) == [kind |-> "df", exc |-> "", df |-> t]

LabelChannels ==
    {"mortality", "circ_failure", "resp_failure", "urine_reg", "urine_binary",
     "phenotyping", "los"}

KeyColumns == {"datetime", "rel_datetime", "pid"}

Rows(table) == Len(table.datetime)

BoolEntry(b) == Known(IF b THEN 1 ELSE 0)

HasDuplicates(col) == \E i, j \in 1..Len(col) : i < j /\ col[i] = col[j]

\* np.linspace(start, 0, num) for start = start_num / start_den, as fractions
\* over the common denominator start_den * (num - 1).
linspace_to_zero(start_num, start_den, num) ==
    IF num = 1
    THEN <<Frac(start_num, start_den)>>
    ELSE [i \in 1..num |->
             Frac(start_num * (num - 1) - (i - 1) * start_num,
                  start_den * (num - 1))]

\* np.linspace(..., endpoint=False): the step is start / num, 0 is never reached.
rem_los_arr_no_endpoint(stay_length) ==
    [i \in 1..stay_length |->
        Frac(stay_length * stay_length - (i - 1) * stay_length,
             STEPS_PER_HOUR * stay_length)]

\* line 106
rem_los_arr(stay_length) ==
    linspace_to_zero(stay_length, STEPS_PER_HOUR, stay_length)

\* The validity mask taken from the urine counter instead of the heart-rate one.
hr_status_of_urine_column(pat) == get_hr_status(Col(pat, "vm24_cum"))

\* lines 57-58
hr_status_of(pat) == get_hr_status(Col(pat, "vm1_cum"))

\* lines 73-74
mortality_channel(stay_length, status, hr_status_arr) ==
    convolve_hr(unique_label_at_hours(stay_length, BoolEntry(status), MORT_AT_HOURS),
                hr_status_arr)

\* lines 78-80
circ_failure_channel(endpoint, hr_status_arr) ==
    convolve_hr(transition_to_failure(Col(endpoint, "circ_failure_status"),
                                      FAILURE_LHOURS, FAILURE_RHOURS),
                hr_status_arr)

\* lines 84-87
resp_failure_channel(endpoint, hr_status_arr) ==
    convolve_hr(transition_to_failure(
                    get_any_resp_label(Col(endpoint, "resp_failure_status")),
                    FAILURE_LHOURS, FAILURE_RHOURS),
                hr_status_arr)

\* lines 91-96: <<urine_reg_arr, urine_binary_arr>>
urine_channels(pat, hr_status_arr) ==
    LET fut == future_urine_output(Col(pat, "vm24"), Col(pat, "vm24_cum"),
                                   Col(pat, "vm131"), URINE_RHOURS)
    IN  <<convolve_hr(fut[1], hr_status_arr), convolve_hr(fut[2], hr_status_arr)>>

\* lines 101-102
phenotyping_channel(stay_length, apache_group, hr_status_arr) ==
    convolve_hr(unique_label_at_hours(stay_length, apache_group, PHENO_AT_HOURS),
                hr_status_arr)

\* The remaining length of stay left unmasked.
rem_los_channel_unmasked(stay_length, hr_status_arr) ==
    LET rem_los == rem_los_arr(stay_length)
    IN  [i \in 1..stay_length |-> Known(rem_los[i])]

\* lines 106-107
rem_los_channel(stay_length, hr_status_arr) ==
    LET rem_los == rem_los_arr(stay_length)
    IN  convolve_hr([i \in 1..stay_length |-> Known(rem_los[i])], hr_status_arr)

\* lines 52-58 and 67-111: the output frame; pd.DataFrame refuses columns of
\* unequal length.
FrameOf(pat, endpoint, status, apache_group) ==
    LET stay_length == Len(Col(pat, "rel_datetime"))
        hr_status_arr == hr_status_of(pat)
        urine == urine_channels(pat, hr_status_arr)
        t == [datetime     |-> Col(pat, "datetime"),
              rel_datetime |-> Col(pat, "rel_datetime"),
              pid          |-> Col(pat, "pid"),
              mortality    |-> mortality_channel(stay_length, status, hr_status_arr),
              circ_failure |-> circ_failure_channel(endpoint, hr_status_arr),
              resp_failure |-> resp_failure_channel(endpoint, hr_status_arr),
              urine_reg    |-> urine[1],
              urine_binary |-> urine[2],
              phenotyping  |-> phenotyping_channel(stay_length, apache_group,
                                                   hr_status_arr),
              los          |-> rem_los_channel(stay_length, hr_status_arr)]
    IN  IF \A c \in LabelChannels : Len(t[c]) = Len(pat)
        THEN Df(t)
        ELSE Raise("ValueError@110")

\* The frame built from the stay without its first row.
gen_label_frame_drops_first(pat, endpoint, status, apache_group) ==
    FrameOf(Tail(pat), Tail(endpoint), status, apache_group)

\* lines 67-111
gen_label_frame(pat, endpoint, status, apache_group) ==
    FrameOf(pat, endpoint, status, apache_group)

\* lines 49-111
gen_label(pat, endpoint, status, apache_group) ==
    IF Len(pat) = 0 \/ Len(endpoint) = 0
    THEN IF info_enabled THEN Raise("TypeError@61") ELSE None
    ELSE IF HasDuplicates(Col(endpoint, "datetime"))
    THEN Raise("ValueError@64")
    ELSE IF Len(pat) # Len(endpoint)
    THEN Raise("ValueError@65")
    ELSE IF Col(pat, "datetime") # Col(endpoint, "datetime")
    THEN Raise("AssertionError@65")
    ELSE gen_label_frame(pat, endpoint, status, apache_group)

---------------------------------------------------------------------------
(* label_gen_benchmark *)

\* Only the first and the last key compared.
is_df_sorted_ends_only(df, colname) ==
    Len(df) = 0 \/ df[Len(df)][colname] >= df[1][colname]

\* line 46: df[colname].diff() puts NaN first, dropna() removes it.
is_df_sorted(df, colname) ==
    LET col == Col(df, colname)
        diff == [i \in 1..Len(col) |->
                    IF i = 1 THEN NaN ELSE Known(col[i] - col[i - 1])]
        kept == SelectSeq(diff, LAMBDA d : ~IsNaN(d))
    IN  \A i \in 1..Len(kept) : Val(kept[i]) >= 0

\* A row goes behind every row whose key is not larger: equal keys keep their order.
InsertByKey(sorted, row, colname) ==
    LET n == Cardinality({i \in 1..Len(sorted) : sorted[i][colname] <= row[colname]})
    IN  SubSeq(sorted, 1, n) \o <<row>> \o SubSeq(sorted, n + 1, Len(sorted))

RECURSIVE SortPrefix(_, _, _)
SortPrefix(df, n, colname) ==
    IF n = 0 THEN <<>>
    ELSE InsertByKey(SortPrefix(df, n - 1, colname), df[n], colname)

\* line 181: df.sort_values(by=colname, kind="mergesort")
sort_values(df, colname) == SortPrefix(df, Len(df), colname)

\* Series.unique(): the values in order of first appearance.
Unique(col) ==
    LET firsts == {i \in 1..Len(col) : \A j \in 1..(i - 1) : col[j] # col[i]}
    IN  [k \in 1..Cardinality(firsts) |->
            col[CHOOSE i \in firsts : Cardinality({j \in firsts : j <= i}) = k]]

\* df[df[PID] == pid]
SliceOf(df, pid) == SelectSeq(df, LAMBDA row : row.pid = pid)

CurPid == all_pids[pidx + 1]

\* float(x) of line 151 and 152: the exception it raises, "" when it returns.
FloatExc(rows, name) ==
    IF Len(rows) # 1 THEN "TypeError"
    ELSE IF rows[1][name].kind = "str" THEN "ValueError"
    ELSE IF rows[1][name].kind = "none" THEN "TypeError"
    ELSE ""

\* lines 143-154: the exception reading a patient's static attributes raises.
StaticExc(pid) ==
    LET rows == SliceOf(df_static, pid)
    IN  IF Len(rows) = 0 THEN "IndexError@144"
        ELSE IF FloatExc(rows, "apache_ii") # ""
        THEN FloatExc(rows, "apache_ii") \o "@151"
        ELSE IF FloatExc(rows, "apache_iv") # ""
        THEN FloatExc(rows, "apache_iv") \o "@152"
        ELSE ""

\* lines 144-149
MortStatusOf(pid) == SliceOf(df_static, pid)[1].discharge_status = "dead"

\* lines 151-154
ApacheGroupOf(pid) ==
    LET row == SliceOf(df_static, pid)[1]
    IN  merge_apache_groups(row.apache_ii, row.apache_iv, APACHE_II_map, APACHE_IV_map)

Abort(e) ==
    /\ pc' = "aborted"
    /\ exc' = e

\* lines 143-154 raising: no handler covers values[0] or float().
IterStaticRaises ==
    /\ pc = "loop"
    /\ pidx < Len(all_pids)
    /\ StaticExc(CurPid) # ""
    /\ Abort(StaticExc(CurPid))
    /\ UNCHANGED <<df_static, df_all_pats, df_all_endpoints, all_pids, debug_mode,
                   info_enabled,
                   pidx, n_skipped_patients, all_out_dfs, df_pat, df_endpoint,
                   mort_status, apache_pat_group, df_label, parquet>>

\* The empty-slice branch without its n_skipped_patients += 1.
IterEmpty_uncounted ==
    /\ pc = "loop"
    /\ pidx < Len(all_pids)
    /\ StaticExc(CurPid) = ""
    /\ Len(SliceOf(df_all_pats, CurPid)) = 0 \/ Len(SliceOf(df_all_endpoints, CurPid)) = 0
    /\ mort_status' = MortStatusOf(CurPid)
    /\ apache_pat_group' = ApacheGroupOf(CurPid)
    /\ df_pat' = SliceOf(df_all_pats, CurPid)
    /\ df_endpoint' = SliceOf(df_all_endpoints, CurPid)
    /\ IF info_enabled
       THEN /\ Abort("TypeError@175")
            /\ UNCHANGED pidx
       ELSE /\ pidx' = pidx + 1
            /\ UNCHANGED <<pc, exc>>
    /\ UNCHANGED <<df_static, df_all_pats, df_all_endpoints, all_pids, debug_mode,
                   info_enabled,
                   n_skipped_patients, all_out_dfs, df_label, parquet>>

\* lines 143-178 for a patient with an empty slice: both warnings pass
\* flush=True to logging.info, which an enabled logger rejects.  (The file
\* test of line 157 passed at line 129, the slicing of line 163 does not raise.)
IterEmpty ==
    /\ pc = "loop"
    /\ pidx < Len(all_pids)
    /\ StaticExc(CurPid) = ""
    /\ LET pat == SliceOf(df_all_pats, CurPid)
           endpoint == SliceOf(df_all_endpoints, CurPid)
       IN  /\ Len(pat) = 0 \/ Len(endpoint) = 0
           /\ mort_status' = MortStatusOf(CurPid)
           /\ apache_pat_group' = ApacheGroupOf(CurPid)
           /\ df_pat' = pat
           /\ df_endpoint' = endpoint
           /\ IF info_enabled
              THEN /\ Abort(IF Len(pat) = 0 THEN "TypeError@173" ELSE "TypeError@175")
                   /\ UNCHANGED <<pidx, n_skipped_patients>>
              ELSE /\ n_skipped_patients' = n_skipped_patients + 1
                   /\ pidx' = pidx + 1
                   /\ UNCHANGED <<pc, exc>>
    /\ UNCHANGED <<df_static, df_all_pats, df_all_endpoints, all_pids, debug_mode,
                   info_enabled,
                   all_out_dfs, df_label, parquet>>

\* lines 143-181 for a patient with both slices: up to the call of gen_label.
IterPrepare ==
    /\ pc = "loop"
    /\ pidx < Len(all_pids)
    /\ StaticExc(CurPid) = ""
    /\ LET pat == SliceOf(df_all_pats, CurPid)
           endpoint == SliceOf(df_all_endpoints, CurPid)
       IN  /\ Len(pat) # 0 /\ Len(endpoint) # 0
           /\ mort_status' = MortStatusOf(CurPid)
           /\ apache_pat_group' = ApacheGroupOf(CurPid)
           /\ df_pat' = pat
           /\ df_endpoint' = IF ~is_df_sorted(endpoint, "datetime")
                             THEN sort_values(endpoint, "datetime")
                             ELSE endpoint
    /\ pc' = "call"
    /\ UNCHANGED <<df_static, df_all_pats, df_all_endpoints, all_pids, debug_mode,
                   info_enabled,
                   pidx, n_skipped_patients, all_out_dfs, df_label, parquet, exc>>

\* lines 184-201: the call of gen_label and what the loop does with its result.
IterGenLabel ==
    /\ pc = "call"
    /\ LET res == gen_label(df_pat, df_endpoint, mort_status, apache_pat_group)
       IN  /\ df_label' = IF res.kind = "raise" THEN df_label ELSE res
           /\ IF res.kind = "raise"
              THEN /\ Abort(res.exc)
                   /\ UNCHANGED <<pidx, n_skipped_patients, all_out_dfs>>
              ELSE IF res.kind = "None"
              THEN /\ n_skipped_patients' = n_skipped_patients + 1
                   /\ pidx' = pidx + 1
                   /\ pc' = "loop"
                   /\ UNCHANGED <<all_out_dfs, exc>>
              ELSE IF Rows(res.df) # Len(df_pat)
              THEN /\ Abort("AssertionError@192")
                   /\ UNCHANGED <<pidx, n_skipped_patients, all_out_dfs>>
              ELSE /\ all_out_dfs' = IF debug_mode THEN all_out_dfs
                                     ELSE Append(all_out_dfs, res.df)
                   /\ pidx' = pidx + 1
                   /\ pc' = "loop"
                   /\ UNCHANGED <<n_skipped_patients, exc>>
    /\ UNCHANGED <<df_static, df_all_pats, df_all_endpoints, all_pids, debug_mode,
                   info_enabled,
                   df_pat, df_endpoint, mort_status, apache_pat_group, parquet>>

RECURSIVE ConcatColumn(_, _, _)
ConcatColumn(dfs, n, name) ==
    IF n = 0 THEN <<>> ELSE ConcatColumn(dfs, n - 1, name) \o dfs[n][name]

\* pd.concat(dfs, axis=0) of a non-empty list
concat(dfs) ==
    [name \in KeyColumns \cup LabelChannels |-> ConcatColumn(dfs, Len(dfs), name)]

NoFile == [exists |-> FALSE, df |-> <<>>]

\* lines 203-206: pd.concat raises ValueError on an empty list.
Finish ==
    /\ pc = "loop"
    /\ pidx = Len(all_pids)
    /\ IF debug_mode
       THEN /\ pc' = "done"
            /\ UNCHANGED <<parquet, exc>>
       ELSE IF all_out_dfs = <<>>
       THEN /\ Abort("ValueError@204")
            /\ UNCHANGED parquet
       ELSE /\ parquet' = [exists |-> TRUE, df |-> concat(all_out_dfs)]
            /\ pc' = "done"
            /\ UNCHANGED exc
    /\ UNCHANGED <<df_static, df_all_pats, df_all_endpoints, all_pids, debug_mode,
                   info_enabled,
                   pidx, n_skipped_patients, all_out_dfs, df_pat, df_endpoint,
                   mort_status, apache_pat_group, df_label>>

Next ==
    \/ IterStaticRaises
    \/ IterEmpty
    \/ IterPrepare
    \/ IterGenLabel
    \/ Finish

---------------------------------------------------------------------------
(* The batches checked.  A patient is described by its stay length L, the  *)
(* patterns of fresh heart-rate and urine measurements (repeated over the  *)
(* stay), its weight, the endpoint rows (timestamps dts, circulatory and   *)
(* respiratory status) and its static record st.                           *)

MaxPatients == 3
MaxLen == 3
LongExtra == 1

Horizon == MORT_AT_HOURS * STEPS_PER_HOUR

Seqs(S, n) == [1..n -> S]

At(pattern, t) == pattern[((t - 1) % Len(pattern)) + 1]

CumCount(pattern, t) ==
    (t \div Len(pattern)) * SumRange(pattern, 1, Len(pattern))
        + SumRange(pattern, 1, t % Len(pattern))

Num(v) == [kind |-> "num", v |-> v]
NanScore == [kind |-> "nan", v |-> 0]
StrScore == [kind |-> "str", v |-> 0]
NoneScore == [kind |-> "none", v |-> 0]

Static(d, a2, a4) ==
    [present |-> TRUE, discharge_status |-> d, apache_ii |-> a2, apache_iv |-> a4]

NoStatic == [present |-> FALSE, discharge_status |-> "", apache_ii |-> NanScore,
             apache_iv |-> NanScore]

GoodStatics ==
    {Static("dead", Num(1), NanScore),
     Static("alive", NanScore, Num(3)),
     Static("alive", NanScore, NanScore)}

BadStatics ==
    {NoStatic,
     Static("alive", StrScore, Num(1)),
     Static("dead", Num(2), NoneScore)}

Patient(L, hr, ur, w, dts, circ, resp, st) ==
    [L |-> L, hr |-> hr, ur |-> ur, w |-> w, dts |-> dts, circ |-> circ,
     resp |-> resp, st |-> st]

Grid(L) == [t \in 1..L |-> t]

ImputedOf(pid, p) ==
    [t \in 1..p.L |->
        [pid |-> pid, datetime |-> t, rel_datetime |-> t - 1,
         vm1_cum |-> CumCount(p.hr, t), vm24 |-> At(p.ur, t),
         vm24_cum |-> CumCount(p.ur, t), vm131 |-> p.w]]

EndpointOf(pid, p) ==
    [i \in 1..Len(p.dts) |->
        [pid |-> pid, datetime |-> p.dts[i],
         circ_failure_status |-> At(p.circ, i),
         resp_failure_status |-> At(p.resp, i)]]

StaticOf(pid, p) ==
    IF p.st.present
    THEN <<[pid |-> pid, discharge_status |-> p.st.discharge_status,
            apache_ii |-> p.st.apache_ii, apache_iv |-> p.st.apache_iv]>>
    ELSE <<>>

RECURSIVE Flatten(_)
Flatten(blocks) ==
    IF blocks = <<>> THEN <<>>
    ELSE Flatten(SubSeq(blocks, 1, Len(blocks) - 1)) \o blocks[Len(blocks)]

\* Label content: every measurement pattern of a short, aligned stay.
ContentPatients ==
    UNION {{Patient(L, hr, ur, w, Grid(L), <<0, 1>>, <<0, 0, 2>>, st) :
               hr \in Seqs({0, 1}, L), ur \in Seqs({0, 1}, L),
               w \in {0, 1, 3}, st \in GoodStatics} : L \in 1..MaxLen}

\* Alignment: every endpoint series of up to MaxLen rows against a grid stay.
AlignmentPatients ==
    UNION {{Patient(L, <<1>>, <<1>>, 3, dts, circ, <<0>>, Static("dead", Num(1), NanScore)) :
               L \in 1..MaxLen, circ \in Seqs({0, 1}, n), dts \in Seqs(1..MaxLen, n)} :
           n \in 0..MaxLen}

LongMeasurements ==
    {[hr |-> <<1>>, ur |-> <<1>>, w |-> 3],
     [hr |-> <<0, 0, 1>>, ur |-> <<0>>, w |-> 3],
     [hr |-> <<1>>, ur |-> <<0, 1>>, w |-> 0]}

\* Stays that reach the 24 h horizon.
LongPatients ==
    {Patient(L, m.hr, m.ur, m.w, Grid(L), <<0>>, <<0>>, st) :
        L \in Horizon..(Horizon + LongExtra), m \in LongMeasurements,
        st \in {Static("dead", Num(1), NanScore), Static("alive", NanScore, NanScore)}}

\* Static records that do not coerce.
BadStaticPatients ==
    {Patient(1, <<1>>, <<1>>, 3, <<1>>, <<0>>, <<0>>, st) : st \in BadStatics}

GenPatients ==
    ContentPatients \cup AlignmentPatients \cup LongPatients \cup BadStaticPatients

BatchPatients ==
    {Patient(2, <<1>>, <<1>>, 3, <<1, 2>>, <<0, 1>>, <<0>>, Static("dead", Num(1), NanScore)),
     Patient(2, <<0, 1>>, <<0>>, 3, <<2, 1>>, <<1, 0>>, <<0>>, Static("alive", NanScore, Num(3))),
     Patient(1, <<1>>, <<1>>, 0, <<1>>, <<0>>, <<2>>, Static("alive", NanScore, NanScore)),
     Patient(2, <<1>>, <<1>>, 3, <<>>, <<0>>, <<0>>, Static("dead", Num(1), NanScore)),
     Patient(2, <<1>>, <<1>>, 3, <<1, 3>>, <<0>>, <<0>>, Static("dead", Num(1), NanScore)),
     Patient(2, <<1>>, <<1>>, 3, <<1>>, <<0>>, <<0>>, Static("dead", Num(1), NanScore)),
     Patient(2, <<1>>, <<1>>, 3, <<1, 1>>, <<0>>, <<0>>, Static("dead", Num(1), NanScore)),
     Patient(1, <<1>>, <<1>>, 3, <<1>>, <<0>>, <<0>>, Static("alive", StrScore, Num(1))),
     Patient(1, <<1>>, <<1>>, 3, <<1>>, <<0>>, <<0>>, NoStatic)}

\* The state at line 140: tables loaded, nothing processed.
InitWith(ps, debug, info) ==
    /\ df_static = Flatten([i \in 1..Len(ps) |-> StaticOf(i, ps[i])])
    /\ df_all_pats = Flatten([i \in 1..Len(ps) |-> ImputedOf(i, ps[i])])
    /\ df_all_endpoints = Flatten([i \in 1..Len(ps) |-> EndpointOf(i, ps[i])])
    /\ all_pids = Unique(Col(Flatten([i \in 1..Len(ps) |-> ImputedOf(i, ps[i])]), "pid"))
    /\ debug_mode = debug
    /\ info_enabled = info
    /\ pidx = 0
    /\ n_skipped_patients = 0
    /\ all_out_dfs = <<>>
    /\ df_pat = <<>>
    /\ df_endpoint = <<>>
    /\ mort_status = FALSE
    /\ apache_pat_group = NaN
    /\ df_label = None
    /\ parquet = NoFile
    /\ pc = "loop"
    /\ exc = ""

\* Batches of up to MaxPatients patients.
Init ==
    \E n \in 1..MaxPatients, debug \in BOOLEAN, info \in BOOLEAN :
        \E ps \in Seqs(BatchPatients, n) : InitWith(ps, debug, info)

Spec == Init /\ [][Next]_vars

\* One-patient batches over every input of gen_label within the bounds.
InitGen ==
    \E p \in GenPatients, info \in BOOLEAN : InitWith(<<p>>, FALSE, info)

SpecGen == InitGen /\ [][Next]_vars

---------------------------------------------------------------------------
(* Properties *)

PatOf(pid) == SliceOf(df_all_pats, pid)
EndOf(pid) == SliceOf(df_all_endpoints, pid)

EmptySlice(pid) == Len(PatOf(pid)) = 0 \/ Len(EndOf(pid)) = 0

Ascending(col) == \A i, j \in 1..Len(col) : i < j => col[i] <= col[j]

GenLabelExcs ==
    {"TypeError@61", "ValueError@64", "ValueError@65", "AssertionError@65",
     "ValueError@110"}

AlignmentExcs == {"ValueError@64", "ValueError@65", "AssertionError@65"}

\* Whether the loop is at or past the call of gen_label for the patient at pidx + 1.
AtCurrent == pidx < Len(all_pids) /\ pc \in {"call", "aborted"}

\* The imputed series and the sorted endpoint series passed to gen_label differ
\* in length or in some timestamp.
MisalignedCall ==
    /\ Len(df_pat) > 0
    /\ Len(df_endpoint) > 0
    /\ df_pat[1].pid = CurPid
    /\ Col(df_pat, "datetime") # Col(df_endpoint, "datetime")

\* df_label is the table gen_label returned for the slices in df_pat, df_endpoint.
LabelIsOfLocals ==
    /\ df_label.kind = "df"
    /\ pc # "call"
    /\ Len(df_pat) > 0
    /\ Len(df_endpoint) > 0
    /\ exc \notin GenLabelExcs

Mask == get_hr_status(Col(df_pat, "vm1_cum"))

HorizonOf(c) == IF c \in {"mortality", "phenotyping"} THEN Horizon ELSE 0

\* C1: a patient whose imputed and sorted endpoint series are not row-aligned
\* is skipped; the alignment failure raised in gen_label never aborts the batch.
C1_MisalignedIsSkipped ==
    (AtCurrent /\ MisalignedCall) => ~(pc = "aborted" /\ exc \in AlignmentExcs)

\* C2: a patient with an empty imputed or endpoint slice (and static
\* attributes that read fine) is skipped and the loop goes on: the batch never
\* ends at such a patient.
C2_EmptyIsSkipped ==
    (pidx < Len(all_pids) /\ StaticExc(CurPid) = "" /\ EmptySlice(CurPid))
        => pc # "aborted"

UncoercibleScore(pid) ==
    /\ Len(SliceOf(df_static, pid)) = 1
    /\ \/ SliceOf(df_static, pid)[1].apache_ii.kind \in {"str", "none"}
       \/ SliceOf(df_static, pid)[1].apache_iv.kind \in {"str", "none"}

\* C3: a static attribute that cannot be coerced is replaced by its default and
\* the patient is still processed: the batch never ends at such a patient
\* while reading its static attributes.
C3_StaticDefaults ==
    (pidx < Len(all_pids) /\ UncoercibleScore(CurPid))
        => ~(pc = "aborted" /\ exc \in {"ValueError@151", "TypeError@151",
                                         "ValueError@152", "TypeError@152"})

\* C4: in non-debug mode, once the patient loop has handled every patient the
\* batch completes: the combined table is written, whatever was skipped, and
\* the skipped count is the number of skipped patients.
C4_BatchCompletes ==
    (~debug_mode /\ pidx = Len(all_pids))
        => /\ pc # "aborted"
           /\ pc = "done" =>
                /\ parquet.exists
                /\ n_skipped_patients
                     = Cardinality({i \in 1..Len(all_pids) : EmptySlice(all_pids[i])})

TableComplete(t, pid) ==
    /\ Rows(t) = Len(PatOf(pid))
    /\ \A c \in KeyColumns \cup LabelChannels : Len(t[c]) = Rows(t)
    /\ \A i \in 1..Rows(t) : t.pid[i] = pid

\* C5: in non-debug mode every handled patient was either skipped (counted
\* once, no table) or has exactly one complete table in the accumulator:
\* tables + skipped = handled, and no skipped patient has a row in the output.
C5_HandledOnce ==
    ~debug_mode =>
        /\ Len(all_out_dfs) + n_skipped_patients = pidx
        /\ n_skipped_patients
             = Cardinality({i \in 1..pidx : EmptySlice(all_pids[i])})
        /\ \A k \in 1..Len(all_out_dfs) :
              \E i \in 1..pidx :
                  /\ ~EmptySlice(all_pids[i])
                  /\ TableComplete(all_out_dfs[k], all_pids[i])
        /\ \A k, l \in 1..Len(all_out_dfs) :
              k # l => all_out_dfs[k].pid[1] # all_out_dfs[l].pid[1]
        /\ parquet.exists =>
              /\ parquet.df = concat(all_out_dfs)
              /\ \A r \in 1..Rows(parquet.df) :
                    \E i \in 1..pidx : /\ all_pids[i] = parquet.df.pid[r]
                                       /\ ~EmptySlice(all_pids[i])

C5_Witness ==
    /\ ~debug_mode
    /\ pc = "done"
    /\ n_skipped_patients >= 1
    /\ Len(all_out_dfs) >= 2
    /\ parquet.exists

\* C6: the table gen_label returns for a patient, and each table appended to
\* the batch output, has as many rows as the patient's imputed series, and
\* every label channel has the length of the stay.
C6_RowsMatchStay ==
    /\ LabelIsOfLocals =>
          /\ Rows(df_label.df) = Len(df_pat)
          /\ \A c \in LabelChannels : Len(df_label.df[c]) = Len(df_pat)
    /\ \A k \in 1..Len(all_out_dfs) :
          \A c \in KeyColumns \cup LabelChannels :
              Len(all_out_dfs[k][c]) = Len(PatOf(all_out_dfs[k].pid[1]))

C6_Witness ==
    /\ LabelIsOfLocals
    /\ Len(df_pat) >= 2
    /\ Len(all_out_dfs) = 1
    /\ EndOf(df_pat[1].pid) # df_endpoint

\* C7 as stated: an unknown entry at timestep t occurs only before the
\* channel's horizon or where the validity mask is false.
C7_UnknownOnlyHorizonOrMask ==
    LabelIsOfLocals =>
        \A c \in LabelChannels : \A t \in 1..Len(df_label.df[c]) :
            IsNaN(df_label.df[c][t]) => (t - 1 < HorizonOf(c) \/ ~Mask[t])

UrineUndefinedAt(t) ==
    \/ df_pat[t].vm131 <= 0
    \/ ~UrineMeasuredIn(Col(df_pat, "vm24_cum"), t,
                        Min(t + URINE_RHOURS * STEPS_PER_HOUR - 1, Len(df_pat)))

\* C7 as amended: an unknown entry occurs only before the channel's horizon,
\* where the validity mask is false, in a urine channel whose 2 h window holds
\* no genuine measurement or whose weight is not positive, or in the
\* phenotyping channel of a patient without a severity group.
C7_UnknownCauses ==
    LabelIsOfLocals =>
        \A c \in LabelChannels : \A t \in 1..Len(df_label.df[c]) :
            IsNaN(df_label.df[c][t]) =>
                \/ t - 1 < HorizonOf(c)
                \/ ~Mask[t]
                \/ c \in {"urine_reg", "urine_binary"} /\ UrineUndefinedAt(t)
                \/ c = "phenotyping" /\ IsNaN(apache_pat_group)

C7_Witness ==
    /\ LabelIsOfLocals
    /\ \E t \in 1..Len(df_pat) :
          /\ t - 1 >= Horizon
          /\ Mask[t]
          /\ ~IsNaN(df_label.df.mortality[t])
          /\ IsNaN(df_label.df.urine_reg[t])
          /\ IsNaN(df_label.df.phenotyping[t])
          /\ ~IsNaN(df_label.df.los[t])

\* C8: every label channel is masked with the heart-rate validity mask: where
\* the mask is false, every channel of the returned table is unknown.
C8_MaskedEverywhere ==
    LabelIsOfLocals =>
        \A c \in LabelChannels : \A t \in 1..Len(df_label.df[c]) :
            ~Mask[t] => IsNaN(df_label.df[c][t])

C8_Witness ==
    /\ LabelIsOfLocals
    /\ \E t \in 1..Len(df_pat) : ~Mask[t] /\ IsNaN(df_label.df.los[t])
    /\ \E t \in 1..Len(df_pat) : Mask[t] /\ ~IsNaN(df_label.df.circ_failure[t])

\* From first = L / STEPS_PER_HOUR down to 0 in equal steps.
LinearToZero(arr, L) ==
    /\ Len(arr) = L
    /\ arr[1].num * STEPS_PER_HOUR = L * arr[1].den
    /\ arr[L].num = 0
    /\ \A i \in 1..(L - 1) : /\ arr[i].den = arr[i + 1].den
                             /\ arr[i].num > arr[i + 1].num
    /\ \A i \in 1..(L - 2) :
          arr[i].num - arr[i + 1].num = arr[i + 1].num - arr[i + 2].num

\* The unmasked entries of the returned channel are those of rem_los.
LosFromRemLos ==
    \A t \in 1..Len(df_pat) :
        Mask[t] => df_label.df.los[t] = Known(rem_los_arr(Len(df_pat))[t])

\* C9 as stated: for every stay length L >= 1 the remaining length of stay
\* before masking falls linearly from L / steps_per_hour at the first timestep
\* to 0 at the last.
C9_LinearFromFirstToZero ==
    LabelIsOfLocals => LinearToZero(rem_los_arr(Len(df_pat)), Len(df_pat))

\* C9 as amended: so for every stay length L >= 2; for L = 1 the one entry is
\* 1 / steps_per_hour.
C9_LinearForTwoOrMore ==
    LabelIsOfLocals =>
        /\ Len(df_pat) >= 2 => LinearToZero(rem_los_arr(Len(df_pat)), Len(df_pat))
        /\ Len(df_pat) = 1 =>
              rem_los_arr(1) = <<Frac(1, STEPS_PER_HOUR)>>
        /\ LosFromRemLos

C9_Witness ==
    /\ LabelIsOfLocals
    /\ Len(df_pat) >= 3
    /\ df_label.df.los[Len(df_pat)] = Known(Frac(0, STEPS_PER_HOUR * (Len(df_pat) - 1)))
    /\ ~IsNaN(df_label.df.los[1])

RowsAt(df, ts) == SelectSeq(df, LAMBDA row : row.datetime = ts)

===========================================================================
